---------------------------- MODULE Spec2Model ----------------------------
(***************************************************************************)
(* Model of the image sorter "folder sorting v1.10".                       *)
(*                                                                         *)
(* Strings are sequences of tokens.  A token is one character, except that *)
(* a run of digits the grammar treats as a unit (the 8-digit date, a       *)
(* 5-digit sequence number) and an extension word are one token each: the  *)
(* regular expression NAME_RE can only match such a run as a whole,        *)
(* because every \d{8} / \d{5} of the pattern is delimited by "_" or ".".  *)
(* A path is a directory (a sequence of segments, relative to the image    *)
(* root) and a file name; the file system is a function from paths to      *)
(* file contents.                                                          *)
(***************************************************************************)
EXTENDS Integers, Sequences, FiniteSets, TLC

(***************************************************************************)
(* Tokens                                                                  *)
(***************************************************************************)
US == "_"
DOT == "."
SP == " "
FWUS == "U+FF3F"
MIDDOT == "U+00B7"
KATADOT == "U+30FB"
SLASH == "/"
BSLASH == "\\"

DateToks == {"20240102"}
NumToks == {"00017", "00018"}
\* VALID_EXTS, without the leading dot
VALID_EXTS == {"png", "jpg", "jpeg", "webp", "bmp", "gif"}
\* the alternatives of (?P<ext>...) in NAME_RE
RE_EXTS == {"png", "jpg", "jpeg", "webp", "bmp", "gif"}

\* str.lower() on the tokens of the model
Lower(t) ==
    CASE t = "PNG" -> "png"
      [] t = "SFW" -> "sfw"
      [] OTHER -> t

NoneVal == [none |-> TRUE]

\* the tokens of s at the indices in K, in order
RECURSIVE KeepIdx(_, _, _)
KeepIdx(s, K, i) ==
    IF i > Len(s) THEN <<>>
    ELSE (IF i \in K THEN <<s[i]>> ELSE <<>>) \o KeepIdx(s, K, i + 1)

AllSpace(s, a, b) == \A k \in a..b : s[k] = SP

\* str.strip()
Strip(s) ==
    KeepIdx(s, {i \in 1..Len(s) :
                   /\ \E j \in 1..i : s[j] # SP
                   /\ \E k \in i..Len(s) : s[k] # SP}, 1)

\* name.replace(FWUS, "_").replace(MIDDOT, "").replace(KATADOT, "")
ReplaceChars(s) ==
    LET kept == KeepIdx(s, {i \in 1..Len(s) : s[i] \notin {MIDDOT, KATADOT}}, 1)
    IN  [i \in 1..Len(kept) |-> IF kept[i] = FWUS THEN US ELSE kept[i]]

\* re.sub(r"\s*_\s*", "_", name): every whitespace run touching an underscore goes
CollapseAroundUnderscore(s) ==
    KeepIdx(s, {i \in 1..Len(s) :
                   ~ /\ s[i] = SP
                     /\ \/ \E j \in (i+1)..Len(s) : s[j] = US /\ AllSpace(s, i, j - 1)
                        \/ \E j \in 1..(i-1) : s[j] = US /\ AllSpace(s, j + 1, i)}, 1)

\* re.sub(r"\s+\.", ".", name): every whitespace run right before a dot goes
CollapseBeforeDot(s) ==
    KeepIdx(s, {i \in 1..Len(s) :
                   ~ /\ s[i] = SP
                     /\ \E j \in (i+1)..Len(s) : s[j] = DOT /\ AllSpace(s, i, j - 1)}, 1)

normalize_filename(name) ==
    Strip(CollapseBeforeDot(CollapseAroundUnderscore(ReplaceChars(name))))

(***************************************************************************)
(* NAME_RE                                                                 *)
(***************************************************************************)
\* index of the first "_" at or after i, 0 when there is none
NextUnderscore(s, i) ==
    LET U == {j \in i..Len(s) : s[j] = US}
    IN  IF U = {} THEN 0 ELSE CHOOSE j \in U : \A k \in U : j <= k

\* (?:_\d{5})? _? \.(ext)$ from index j on: the optional second sequence, the
\* optional underscore, the dot and a whitelisted extension (IGNORECASE), the end
RestMatch(s, j) ==
    \E a \in {0, 2}, b \in {0, 1} :
        /\ j + a + b + 1 = Len(s)
        /\ a = 2 => (s[j] = US /\ s[j + 1] \in NumToks)
        /\ b = 1 => s[j + a] = US
        /\ s[j + a + b] = DOT
        /\ Lower(s[Len(s)]) \in RE_EXTS

\* _(?P<num>\d{5}) ... from index k on
TailMatch(s, k) ==
    /\ k + 1 <= Len(s)
    /\ s[k] = US
    /\ s[k + 1] \in NumToks
    /\ RestMatch(s, k + 2)

\* the middle of a greedy (?P<middle>.+): the longest middle wins
MiddleEndGreedy(s, m0) ==
    LET E == {e \in m0..Len(s) : TailMatch(s, e + 1)}
    IN  IF E = {} THEN 0 ELSE CHOOSE e \in E : \A x \in E : x <= e

\* the middle's last index: (?P<middle>.+?) is lazy, the shortest middle wins
MiddleEnd(s, m0) ==
    LET E == {e \in m0..Len(s) : TailMatch(s, e + 1)}
    IN  IF E = {} THEN 0 ELSE CHOOSE e \in E : \A x \in E : e <= x

NAME_RE(s) ==
    LET u1 == NextUnderscore(s, 3)
        u2 == NextUnderscore(s, u1 + 1)
        u3 == NextUnderscore(s, u2 + 1)
        e  == MiddleEnd(s, u3 + 1)
    IN  IF /\ Len(s) >= 2
           /\ s[1] \in DateToks
           /\ s[2] = US
           /\ u1 > 3
           /\ u2 > u1 + 1
           /\ u3 > u2 + 1
           /\ e > 0
        THEN [date    |-> s[1],
              content |-> SubSeq(s, 3, u1 - 1),
              char    |-> SubSeq(s, u1 + 1, u2 - 1),
              face    |-> SubSeq(s, u2 + 1, u3 - 1),
              middle  |-> SubSeq(s, u3 + 1, e),
              num     |-> s[e + 2],
              ext     |-> s[Len(s)]]
        ELSE NoneVal

parse_filename(name) ==
    LET m == NAME_RE(normalize_filename(name))
    IN  IF m = NoneVal THEN NoneVal ELSE [m EXCEPT !.ext = Lower(m.ext)]

build_canonical_name(p) ==
    <<p.date, US>> \o p.content \o <<US>> \o p.char \o <<US>> \o p.face \o <<US>>
        \o p.middle \o <<US, p.num, DOT, p.ext>>


(***************************************************************************)
(* Paths (pathlib, POSIX flavour)                                          *)
(***************************************************************************)
\* a directory is a sequence of segments below the image root; a directory
\* that starts with the segment ANCHOR is absolute (not below the root)
ANCHOR == <<SLASH>>
PARENT == <<DOT, DOT>>
ROOT == <<>>

MkPath(dir, name) == [dir |-> dir, name |-> name]

\* index of the dot that starts Path.suffix, 0 when the name has no suffix
SuffixDot(name) ==
    LET D == {i \in 1..Len(name) : name[i] = DOT}
        last == CHOOSE i \in D : \A k \in D : k <= i
    IN  IF D = {} THEN 0
        ELSE IF 1 < last /\ last < Len(name) THEN last ELSE 0

\* Path.stem and Path.suffix
PathStem(name) ==
    IF SuffixDot(name) = 0 THEN name ELSE SubSeq(name, 1, SuffixDot(name) - 1)
PathSuffix(name) ==
    IF SuffixDot(name) = 0 THEN <<>> ELSE SubSeq(name, SuffixDot(name), Len(name))

\* the components of a string between slashes, "" and "." dropped (pathlib's parsing)
RECURSIVE SplitSlash(_)
SplitSlash(s) ==
    LET S == {i \in 1..Len(s) : s[i] = SLASH}
        k == IF S = {} THEN Len(s) + 1 ELSE CHOOSE i \in S : \A j \in S : i <= j
        head == SubSeq(s, 1, k - 1)
        rest == IF k >= Len(s) THEN <<>> ELSE SplitSlash(SubSeq(s, k + 1, Len(s)))
    IN  IF Len(s) = 0 THEN <<>>
        ELSE (IF head = <<>> \/ head = <<DOT>> THEN <<>> ELSE <<head>>) \o rest

\* dir / s: an absolute s replaces dir, otherwise its components are appended
PathDiv(dir, s) ==
    IF Len(s) > 0 /\ s[1] = SLASH THEN <<ANCHOR>> \o SplitSlash(s)
    ELSE dir \o SplitSlash(s)

\* str(s).strip().replace("\\", "_").replace("/", "_")
SafeSegment(s) ==
    LET t == Strip(s)
    IN  [i \in 1..Len(t) |-> IF t[i] \in {BSLASH, SLASH} THEN US ELSE t[i]]

RECURSIVE safe_join(_, _)
safe_join(base, parts) ==
    IF parts = <<>> THEN base
    ELSE LET s == SafeSegment(Head(parts))
         IN  safe_join(IF s # <<>> THEN PathDiv(base, s) ELSE base, Tail(parts))

\* what the file system makes of a directory: ".." steps up, also above the
\* image root (OUTSIDE) ; an absolute directory is outside the root
OUTSIDE == <<"<outside>">>
RECURSIVE ResolveDir(_, _)
ResolveDir(done, todo) ==
    IF todo = <<>> THEN done
    ELSE IF Head(todo) = ANCHOR THEN <<OUTSIDE>>
    ELSE IF done # <<>> /\ done[1] = OUTSIDE THEN done
    ELSE IF Head(todo) = PARENT
         THEN IF done = <<>> THEN <<OUTSIDE>>
              ELSE ResolveDir(SubSeq(done, 1, Len(done) - 1), Tail(todo))
    ELSE ResolveDir(Append(done, Head(todo)), Tail(todo))

Exists(fsys, p) == p \in DOMAIN fsys

\* the candidate stem_i.ext of ensure_unique_path
Candidate(p, i) ==
    MkPath(p.dir, PathStem(p.name) \o <<US, ToString(i)>> \o PathSuffix(p.name))

RECURSIVE UniqueFrom(_, _, _)
UniqueFrom(fsys, p, i) ==
    IF ~Exists(fsys, Candidate(p, i)) THEN Candidate(p, i)
    ELSE UniqueFrom(fsys, p, i + 1)

ensure_unique_path(fsys, p) ==
    IF ~Exists(fsys, p) THEN p ELSE UniqueFrom(fsys, p, 2)

\* the digest of a file: equal digests exactly for equal contents
sha1sum(fsys, p) == <<"sha1", fsys[p]>>

\* a comparison that never finds an equal digest in the directory
FindSameHashNever(fsys, dest_dir, digest) == NoneVal

\* a file of dest_dir with this digest, None when there is none (iterdir's
\* order is the file system's: any such file may be the one found)
find_same_hash(fsys, dest_dir, digest) ==
    LET same == {p \in DOMAIN fsys : p.dir = dest_dir /\ sha1sum(fsys, p) = digest}
    IN  IF same = {} THEN NoneVal ELSE CHOOSE p \in same : TRUE

\* list_images: the files with a whitelisted suffix, directly in the root or,
\* with recurse, anywhere below it
list_images(fsys, recurse) ==
    {p \in DOMAIN fsys :
        /\ recurse \/ p.dir = ROOT
        /\ Len(PathSuffix(p.name)) = 2
        /\ Lower(PathSuffix(p.name)[2]) \in VALID_EXTS}

(***************************************************************************)
(* sorted(files): paths compare part by part, parts as strings             *)
(***************************************************************************)
TokOrder ==
    <<SP, DOT, SLASH, "00017", "00018", "20240102", "NSFW", "PNG", "SFW", BSLASH, US,
      "a", "b", "c", "m", "png", "txt", MIDDOT, KATADOT, FWUS>>
Rank(t) == CHOOSE i \in 1..Len(TokOrder) : TokOrder[i] = t

RECURSIVE StrLess(_, _)
StrLess(a, b) ==
    IF b = <<>> THEN FALSE
    ELSE IF a = <<>> THEN TRUE
    ELSE IF Head(a) = Head(b) THEN StrLess(Tail(a), Tail(b))
    ELSE Rank(Head(a)) < Rank(Head(b))

RECURSIVE PartsLess(_, _)
PartsLess(a, b) ==
    IF b = <<>> THEN FALSE
    ELSE IF a = <<>> THEN TRUE
    ELSE IF Head(a) = Head(b) THEN PartsLess(Tail(a), Tail(b))
    ELSE StrLess(Head(a), Head(b))

PathLess(p, q) == PartsLess(Append(p.dir, p.name), Append(q.dir, q.name))

RECURSIVE Sorted(_)
Sorted(S) ==
    IF S = {} THEN <<>>
    ELSE LET m == CHOOSE x \in S : \A y \in S \ {x} : PathLess(x, y)
         IN  <<m>> \o Sorted(S \ {m})

(***************************************************************************)
(* Categories                                                              *)
(***************************************************************************)
IsPrefix(k, t) == Len(k) <= Len(t) /\ SubSeq(t, 1, Len(k)) = k

\* val(col) of build_category_from_excel_row, then the "", "nan", "None" filter
CellValue(v) ==
    LET t == Strip(v)
    IN  IF t \in {<<>>, <<"nan">>, <<"None">>} THEN <<>> ELSE t

\* factor_pose is a column of the row that is not read
build_category_from_excel_row(row) ==
    [content   |-> CellValue(row.content),
     character |-> CellValue(row.character),
     face      |-> CellValue(row.factor_face),
     body      |-> CellValue(row.factor_body),
     backg     |-> CellValue(row.factor_backg),
     photo     |-> CellValue(row.factor_photo),
     light     |-> CellValue(row.factor_light)]

\* a dict whose assignment leaves a key that is already there alone
DictPutKeepFirst(d, key, value) ==
    IF \E i \in 1..Len(d) : d[i].key = key THEN d
    ELSE Append(d, [key |-> key, value |-> value])

\* row_map[key] = value on an insertion-ordered dict: a key already there keeps
\* its place and takes the new value
DictPut(d, key, value) ==
    IF \E i \in 1..Len(d) : d[i].key = key
    THEN [i \in 1..Len(d) |-> IF d[i].key = key THEN [key |-> key, value |-> value] ELSE d[i]]
    ELSE Append(d, [key |-> key, value |-> value])

\* dict.setdefault(key, value)
DictSetDefault(d, key, value) ==
    IF \E i \in 1..Len(d) : d[i].key = key THEN d
    ELSE Append(d, [key |-> key, value |-> value])

RECURSIVE BuildRowMap(_, _)
BuildRowMap(d, rs) ==
    IF rs = <<>> THEN d
    ELSE LET key == Strip(Head(rs).filename_prefix)
         IN  BuildRowMap(IF key = <<>> THEN d
                         ELSE DictPut(d, key, build_category_from_excel_row(Head(rs))),
                         Tail(rs))

\* d.get(stem), and when that finds nothing the first key, in the dict's
\* order, that stem starts with; None when no key matches
PrefixLookup(d, stem) ==
    LET exact == {i \in 1..Len(d) : d[i].key = stem}
        pre   == {i \in 1..Len(d) : IsPrefix(d[i].key, stem)}
    IN  IF exact # {} THEN d[CHOOSE i \in exact : TRUE].value
        ELSE IF pre # {} THEN d[CHOOSE i \in pre : \A j \in pre : i <= j].value
        ELSE NoneVal

\* the categories of a file no row matches
FilenameCats(p) ==
    [content |-> p.content, character |-> p.char, face |-> p.face, body |-> p.middle,
     backg |-> <<>>, photo |-> <<>>, light |-> <<>>]

\* parts, empty ones dropped
Parts(md, c, date) ==
    SelectSeq(<<md, c.content, c.character, c.face, c.body, c.backg, c.photo, c.light, <<date>> >>,
              LAMBDA x : x # <<>>)

\* dest_dir: safe_join(root, *parts), then / args.batch
PlanDir(md, c, date, batch) ==
    LET d == safe_join(ROOT, Parts(md, c, date))
    IN  IF batch # <<>> THEN PathDiv(d, batch) ELSE d

(***************************************************************************)
(* State of one run of main                                                *)
(***************************************************************************)
VARIABLES
    args,           \* copy, dry_run, on_conflict, batch, recurse, min_bytes
    mode,           \* "SFW" or "NSFW"
    rows,           \* the rows of the table (df), in order
    fs,             \* the file system: path -> content (a sequence of bytes)
    files,          \* sorted(list_images(root))
    row_map,        \* insertion-ordered dict: filename_prefix -> categories
    idx,            \* position of the for loop in files
    pc,             \* "start", "loop", "resolve", "plan", "place", "done", "crashed"
    f,              \* the loop's f (reassigned by the canonical rename)
    parsed,         \* parse_filename(f.name)
    ren,            \* what the canonical rename did: "none", "ok", "failed", "planned"
    cats,           \* the categories of the current file
    dest_dir,       \* the planned directory of the current file
    counters,       \* moved, copied, skipped_*, overwritten, dupped
    moved_records,  \* the final paths, in order
    after,          \* per row: the path written to after_dir / after_filename
    log,            \* the logger's lines: level and message kind
    hist,           \* history: one record per file the loop has finished
    cnames          \* round trips of the name codec: a name and its renderings

vars == <<args, mode, rows, fs, files, row_map, idx, pc, f, parsed, ren, cats, dest_dir,
          counters, moved_records, after, log, hist, cnames>>

codecVars == <<cnames>>
iterVars == <<f, parsed, ren, cats, dest_dir>>

Policies == {"dup", "skip", "overwrite", "hash"}

ZeroCounters ==
    [moved |-> 0, copied |-> 0, skipped_unmatched |-> 0, skipped_small |-> 0,
     skipped_conflict |-> 0, skipped_hash_dup |-> 0, overwritten |-> 0, dupped |-> 0]

Bump(c, field) == [c EXCEPT ![field] = @ + 1]

Logged(level, msg) == Append(log, [level |-> level, msg |-> msg])

\* the state main is in before it lists the images
InitMain(a, md, rs, fsys) ==
    /\ args = a
    /\ mode = md
    /\ rows = rs
    /\ fs = fsys
    /\ files = <<>>
    /\ row_map = <<>>
    /\ idx = 0
    /\ pc = "start"
    /\ f = NoneVal
    /\ parsed = NoneVal
    /\ ren = "none"
    /\ cats = NoneVal
    /\ dest_dir = NoneVal
    /\ counters = ZeroCounters
    /\ moved_records = <<>>
    /\ after = <<>>
    /\ log = <<>>
    /\ hist = <<>>
    /\ cnames = <<>>

Orig == files[idx]

\* the end of one pass of the loop body: the history record, the next file
NextFile(outcome, src, final, content) ==
    /\ hist' = Append(hist, [orig |-> Orig, src |-> src, dest_dir |-> dest_dir,
                             final |-> final, outcome |-> outcome, ren |-> ren,
                             content |-> content])
    /\ idx' = idx + 1
    /\ pc' = "loop"
    /\ f' = NoneVal
    /\ parsed' = NoneVal
    /\ ren' = "none"
    /\ cats' = NoneVal
    /\ dest_dir' = NoneVal

(***************************************************************************)
(* main: listing the images, building row_map                              *)
(***************************************************************************)
Start ==
    /\ pc = "start"
    /\ LET imgs == list_images(fs, args.recurse)
       IN  IF imgs = {}
           THEN /\ pc' = "done"
                /\ log' = Logged("WARNING", "no files")
                /\ UNCHANGED <<files, row_map, idx>>
           ELSE /\ files' = Sorted(imgs)
                /\ row_map' = BuildRowMap(<<>>, rows)
                /\ idx' = 1
                /\ pc' = "loop"
                /\ log' = log
    /\ UNCHANGED <<args, mode, rows, fs, iterVars, counters, moved_records, after, hist,
                   codecVars>>

(***************************************************************************)
(* main: the loop body up to the plan                                      *)
(***************************************************************************)
TooSmall(p) == Len(fs[p]) < (IF args.min_bytes > 0 THEN args.min_bytes ELSE 0)

\* f.stat() on a listed file that is no longer there raises, outside every try:
\* the run ends with the exception
StatRaises ==
    /\ pc = "loop"
    /\ idx <= Len(files)
    /\ ~Exists(fs, Orig)
    /\ pc' = "crashed"
    /\ UNCHANGED <<args, mode, rows, fs, files, row_map, idx, iterVars, counters,
                   moved_records, after, log, hist, codecVars>>

SkipSmall ==
    /\ pc = "loop"
    /\ idx <= Len(files)
    /\ Exists(fs, Orig)
    /\ TooSmall(Orig)
    /\ log' = Logged("WARNING", "too small")
    /\ counters' = Bump(counters, "skipped_small")
    /\ NextFile("small", Orig, NoneVal, fs[Orig])
    /\ UNCHANGED <<args, mode, rows, fs, files, row_map, moved_records, after, codecVars>>

SkipUnmatched ==
    /\ pc = "loop"
    /\ idx <= Len(files)
    /\ Exists(fs, Orig)
    /\ ~TooSmall(Orig)
    /\ parse_filename(Orig.name) = NoneVal
    /\ log' = Logged("WARNING", "unmatched name")
    /\ counters' = Bump(counters, "skipped_unmatched")
    /\ NextFile("unmatched", Orig, NoneVal, fs[Orig])
    /\ UNCHANGED <<args, mode, rows, fs, files, row_map, moved_records, after, codecVars>>

\* Path.rename(target)
Renamed(fsys, src, dst) ==
    [q \in (DOMAIN fsys \ {src}) \cup {dst} |-> IF q = dst THEN fsys[src] ELSE fsys[q]]

\* the name the canonical rename aims at
NewPath(fsys, orig, canonical) ==
    LET new_path == MkPath(orig.dir, canonical)
    IN  IF Exists(fsys, new_path) THEN ensure_unique_path(fsys, new_path) ELSE new_path

\* the canonical rename; renameOk is whether the file system lets f.rename succeed
CanonicalRename(renameOk) ==
    /\ pc = "loop"
    /\ idx <= Len(files)
    /\ Exists(fs, Orig)
    /\ ~TooSmall(Orig)
    /\ parse_filename(Orig.name) # NoneVal
    /\ LET p == parse_filename(Orig.name)
           canonical == build_canonical_name(p)
           new_path == NewPath(fs, Orig, canonical)
       IN  /\ parsed' = p
           /\ IF canonical = Orig.name
              THEN /\ f' = Orig
                   /\ ren' = "none"
                   /\ UNCHANGED <<fs, log>>
              ELSE IF args.dry_run
              THEN /\ f' = new_path
                   /\ ren' = "planned"
                   /\ log' = Logged("INFO", "rename planned")
                   /\ fs' = fs
              ELSE IF renameOk
              THEN /\ f' = new_path
                   /\ ren' = "ok"
                   /\ fs' = Renamed(fs, Orig, new_path)
                   /\ log' = log
              ELSE /\ f' = new_path
                   /\ ren' = "failed"
                   /\ log' = Logged("ERROR", "rename failed")
                   /\ fs' = fs
    /\ pc' = "resolve"
    /\ UNCHANGED <<args, mode, rows, files, row_map, idx, cats, dest_dir, counters,
                   moved_records, after, hist, codecVars>>

Canonicalize == \E renameOk \in BOOLEAN : CanonicalRename(renameOk)

\* the categories: the row's when a row matches f.stem, else the file name's
ResolveCats(d, name, p) ==
    LET found == PrefixLookup(d, PathStem(name))
    IN  IF found # NoneVal THEN found ELSE FilenameCats(p)

Resolve ==
    /\ pc = "resolve"
    /\ cats' = ResolveCats(row_map, f.name, parsed)
    /\ log' = IF PrefixLookup(row_map, PathStem(f.name)) = NoneVal
              THEN Logged("INFO", "categories from file name") ELSE log
    /\ pc' = "plan"
    /\ UNCHANGED <<args, mode, rows, fs, files, row_map, idx, f, parsed, ren, dest_dir,
                   counters, moved_records, after, hist, codecVars>>

\* dest_dir and the log line; relative_to(root) raises for a path that is not
\* below the root as written, outside every try: the run ends with the exception
Plan ==
    /\ pc = "plan"
    /\ LET d == PlanDir(mode, cats, parsed.date, args.batch)
       IN  IF d # <<>> /\ d[1] = ANCHOR
           THEN /\ dest_dir' = d
                /\ pc' = "crashed"
                /\ UNCHANGED <<idx, f, parsed, ren, cats, hist, log>>
           ELSE IF args.dry_run
           THEN /\ log' = Logged("INFO", "plan")
                /\ hist' = Append(hist, [orig |-> Orig, src |-> f, dest_dir |-> d,
                                         final |-> NoneVal, outcome |-> "dry", ren |-> ren,
                                         content |-> fs[Orig]])
                /\ idx' = idx + 1
                /\ pc' = "loop"
                /\ f' = NoneVal
                /\ parsed' = NoneVal
                /\ ren' = "none"
                /\ cats' = NoneVal
                /\ dest_dir' = NoneVal
           ELSE /\ log' = Logged("INFO", "plan")
                /\ dest_dir' = d
                /\ pc' = "place"
                /\ UNCHANGED <<idx, f, parsed, ren, cats, hist>>
    /\ UNCHANGED <<args, mode, rows, fs, files, row_map, counters, moved_records, after,
                   codecVars>>

(***************************************************************************)
(* main: the placement (the try block)                                     *)
(***************************************************************************)
Without(fsys, p) == [q \in DOMAIN fsys \ {p} |-> fsys[q]]

\* shutil.copy2 / shutil.move onto a free path
Copied(fsys, src, dst) ==
    [q \in DOMAIN fsys \cup {dst} |-> IF q = dst THEN fsys[src] ELSE fsys[q]]
move_or_copy(fsys, src, dst, copy) ==
    IF copy THEN Copied(fsys, src, dst) ELSE Renamed(fsys, src, dst)

\* What the try block does with f: its outcome, the file system it leaves and
\* the final path.  moveOk is whether the file system lets the copy or move
\* succeed; reading or moving a file that is not there raises in any case.
Placement(fsys, src, ddir, policy, copy, moveOk) ==
    LET dest_path == MkPath(ddir, src.name)
        same == find_same_hash(fsys, ddir, sha1sum(fsys, src))
        taken == Exists(fsys, dest_path)
        fs1 == IF taken /\ policy = "overwrite" THEN Without(fsys, dest_path) ELSE fsys
        final_path == IF taken /\ policy # "overwrite"
                      THEN ensure_unique_path(fsys, dest_path) ELSE dest_path
    IN  IF policy = "hash" /\ ~Exists(fsys, src)
        THEN [outcome |-> "failed", fs |-> fsys, final |-> NoneVal]
        ELSE IF policy = "hash" /\ same # NoneVal
        THEN [outcome |-> "hashdup", fs |-> fsys, final |-> NoneVal]
        ELSE IF taken /\ policy = "skip"
        THEN [outcome |-> "skip", fs |-> fsys, final |-> NoneVal]
        ELSE IF ~Exists(fs1, src) \/ ~moveOk
        THEN [outcome |-> "failed", fs |-> fs1, final |-> NoneVal]
        ELSE [outcome |-> IF copy THEN "copied" ELSE "moved",
              fs |-> move_or_copy(fs1, src, final_path, copy),
              final |-> final_path]

\* a summary whose skip branch forgets its counter
CountOutcomeNoSkip(c, outcome) ==
    CASE outcome = "hashdup" -> Bump(c, "skipped_hash_dup")
      [] outcome = "copied"  -> Bump(c, "copied")
      [] outcome = "moved"   -> Bump(c, "moved")
      [] OTHER -> c

\* the counter each outcome increments; a failure increments none
CountOutcome(c, outcome) ==
    CASE outcome = "hashdup" -> Bump(c, "skipped_hash_dup")
      [] outcome = "skip"    -> Bump(c, "skipped_conflict")
      [] outcome = "copied"  -> Bump(c, "copied")
      [] outcome = "moved"   -> Bump(c, "moved")
      [] OTHER -> c

\* the log lines of the try block
LogOutcome(l, outcome, overwrote) ==
    LET l1 == IF overwrote THEN Append(l, [level |-> "INFO", msg |-> "overwrite"]) ELSE l
    IN  CASE outcome = "hashdup" -> Append(l, [level |-> "INFO", msg |-> "hash-dup skip"])
          [] outcome = "skip"    -> Append(l, [level |-> "INFO", msg |-> "skip"])
          [] outcome = "failed"  -> Append(l1, [level |-> "ERROR", msg |-> "failed"])
          [] OTHER               -> Append(l1, [level |-> "INFO", msg |-> "done"])

PlaceFile(moveOk) ==
    /\ pc = "place"
    /\ LET r == Placement(fs, f, dest_dir, args.on_conflict, args.copy, moveOk)
           content == IF Exists(fs, Orig) THEN fs[Orig] ELSE fs[f]
       IN  /\ fs' = r.fs
           /\ counters' = CountOutcome(counters, r.outcome)
           /\ moved_records' = IF r.final # NoneVal THEN Append(moved_records, r.final)
                               ELSE moved_records
           /\ log' = LogOutcome(log, r.outcome,
                                /\ args.on_conflict = "overwrite"
                                /\ Exists(fs, MkPath(dest_dir, f.name))
                                /\ r.outcome # "hashdup")
           /\ NextFile(r.outcome, f, r.final, content)
    /\ UNCHANGED <<args, mode, rows, files, row_map, after, codecVars>>

Place == \E moveOk \in BOOLEAN : PlaceFile(moveOk)

(***************************************************************************)
(* main: after the loop, the table's after_dir / after_filename            *)
(***************************************************************************)
RECURSIVE StemMap(_, _)
StemMap(d, recs) ==
    IF recs = <<>> THEN d
    ELSE StemMap(DictSetDefault(d, PathStem(Head(recs).name), Head(recs)), Tail(recs))

WriteBack(rs, recs) ==
    [i \in 1..Len(rs) |->
        IF Strip(rs[i].filename_prefix) = <<>> THEN NoneVal
        ELSE PrefixLookup(StemMap(<<>>, recs), Strip(rs[i].filename_prefix))]

Finish ==
    /\ pc = "loop"
    /\ idx > Len(files)
    /\ after' = IF args.dry_run THEN after ELSE WriteBack(rows, moved_records)
    /\ log' = Logged("INFO", "summary")
    /\ pc' = "done"
    /\ UNCHANGED <<args, mode, rows, fs, files, row_map, idx, iterVars, counters,
                   moved_records, hist, codecVars>>

(***************************************************************************)
(* Runs on a file system: every conflict policy, copy and move, faults      *)
(***************************************************************************)
MaxFiles == 3

Head4 == <<"20240102", US, "a", US, "b", US, "c", US>>
NameCanon == Head4 \o <<"m", US, "00017", DOT, "png">>
NameSpace1 == Head4 \o <<"m", SP, US, "00017", DOT, "png">>
NameSpace2 == Head4 \o <<"m", SP, SP, US, "00017", DOT, "png">>
NameOther == <<"a", DOT, "png">>

SFW == <<"SFW">>
NSFW == <<"NSFW">>
\* where a run without table and batch tag puts NameCanon
Sorted17 == <<SFW, <<"a">>, <<"b">>, <<"c">>, <<"m">>, <<"20240102">> >>

BatchNames == {NameCanon, NameSpace1, NameSpace2, NameOther}
\* the images of the root, and one image a former run has sorted
BatchPaths == {MkPath(ROOT, n) : n \in BatchNames} \cup {MkPath(Sorted17, NameCanon)}
Contents == {<<>>, <<"x">>, <<"y">>}
FileSystems ==
    UNION {[D -> Contents] :
             D \in {E \in SUBSET BatchPaths : 1 <= Cardinality(E) /\ Cardinality(E) <= MaxFiles}}

DEFAULT_MIN_BYTES == 1

\* a dry run places nothing: it is run with the default policy only
BatchArgs ==
    {a \in [copy : BOOLEAN, dry_run : BOOLEAN, on_conflict : Policies, recurse : BOOLEAN,
            batch : {<<>>}, min_bytes : {DEFAULT_MIN_BYTES}] :
        a.dry_run => (~a.copy /\ a.on_conflict = "dup")}

InitBatch == \E a \in BatchArgs, fsys \in FileSystems : InitMain(a, SFW, <<>>, fsys)

NextBatch ==
    \/ Start
    \/ StatRaises
    \/ SkipSmall
    \/ SkipUnmatched
    \/ Canonicalize
    \/ Resolve
    \/ Plan
    \/ Place
    \/ Finish

SpecBatch == InitBatch /\ [][NextBatch]_vars

(***************************************************************************)
(* Claims about the placement                                              *)
(***************************************************************************)
HasContent(p, content) == p # NoneVal /\ Exists(fs, p) /\ fs[p] = content
Last == hist[Len(hist)]
Tried(h) == h.outcome \in {"moved", "copied", "failed", "skip", "hashdup"}

\* C3: once the placement of a file has finished, in success or in a caught
\* failure, the file's content is at its source path or at its destination
\* path: never are both missing.
C3_MoveCopySafety ==
    (pc = "loop" /\ hist # <<>> /\ Tried(Last)) =>
        \/ HasContent(Last.orig, Last.content)
        \/ HasContent(Last.src, Last.content)
        \/ HasContent(MkPath(Last.dest_dir, Last.src.name), Last.content)
        \/ HasContent(Last.final, Last.content)

CanonOf(name) == build_canonical_name(parse_filename(name))
NameK(name, k) ==
    IF k = 1 THEN name ELSE PathStem(name) \o <<US, ToString(k)>> \o PathSuffix(name)
InDir(d) == {p \in DOMAIN fs : p.dir = d}

\* the run placed all its n files, all of one canonical name, under dup into
\* one directory that was empty before: none of the files came from it, and
\* it holds nothing but what the run placed
SameNameRun ==
    /\ pc = "done"
    /\ ~args.dry_run
    /\ args.on_conflict = "dup"
    /\ Len(hist) >= 1
    /\ \A i \in 1..Len(hist) :
          /\ hist[i].outcome \in {"moved", "copied"}
          /\ CanonOf(hist[i].orig.name) = CanonOf(hist[1].orig.name)
          /\ hist[i].final.dir = hist[1].final.dir
          /\ hist[i].orig.dir # hist[1].final.dir
    /\ InDir(hist[1].final.dir) = {hist[i].final : i \in 1..Len(hist)}

\* C4: under dup, n files of one canonical name placed one after another into
\* an empty directory leave n distinct files there, named with the canonical
\* name and with its stem suffixed _2 .. _n, each with its own content.
C4_AlternatePathUniqueness ==
    SameNameRun =>
        /\ Cardinality(InDir(hist[1].final.dir)) = Len(hist)
        /\ {p.name : p \in InDir(hist[1].final.dir)}
              = {NameK(CanonOf(hist[1].orig.name), k) : k \in 1..Len(hist)}
        /\ \A i \in 1..Len(hist) : fs[hist[i].final] = hist[i].content

C8_RenameFailureKeepsOriginal ==
    (ren = "failed" /\ pc \in {"resolve", "plan", "place"}) =>
        (f = Orig /\ Exists(fs, f))

SumCounters(c) ==
    c.moved + c.copied + c.skipped_unmatched + c.skipped_small + c.skipped_conflict
        + c.skipped_hash_dup + c.overwritten + c.dupped

CountLog(level, msg) ==
    Cardinality({i \in 1..Len(log) : log[i] = [level |-> level, msg |-> msg]})

\* C9 as claimed: at the end of a run that is not a dry run every listed file
\* is counted by exactly one of the summary counters.
C9_EveryFileCounted ==
    (pc = "done" /\ ~args.dry_run) => SumCounters(counters) = Len(files)

\* C9 as amended: every listed file is counted by one summary counter or is a
\* file whose placement failed, which logged one error and counted nothing;
\* the files moved or copied are the recorded placements.
C9_CountedOrFailed ==
    (pc = "done" /\ ~args.dry_run) =>
        /\ SumCounters(counters) + CountLog("ERROR", "failed") = Len(files)
        /\ counters.moved + counters.copied = Len(moved_records)
        /\ counters.skipped_small = CountLog("WARNING", "too small")
        /\ counters.skipped_unmatched = CountLog("WARNING", "unmatched name")
        /\ counters.skipped_conflict = CountLog("INFO", "skip")
        /\ counters.skipped_hash_dup = CountLog("INFO", "hash-dup skip")

\* C9 witness: a finished run with a failed placement, a skip and a placement
C9_Witness ==
    /\ pc = "done"
    /\ ~args.dry_run
    /\ CountLog("ERROR", "failed") >= 1
    /\ counters.skipped_small + counters.skipped_unmatched >= 1
    /\ counters.moved + counters.copied >= 1

(***************************************************************************)
(* The name codec alone: parse a name, render it, parse the rendering, ...  *)
(***************************************************************************)
MaxTailLen == 7
Rounds == 2

TailToks == {"m", US, "00017", "00018"}
Tails == UNION {[1..n -> TailToks] : n \in 1..MaxTailLen}
\* date_content_char_face_ as written, and with a full-width underscore, a
\* middle dot and blanks around underscores
HeadDecorated == <<"20240102", SP, FWUS, "a", MIDDOT, US, SP, "b", US, "c", US>>
CodecNames ==
    {Head4 \o t \o <<DOT, "png">> : t \in Tails}
        \cup {HeadDecorated \o t \o <<SP, DOT, "PNG">> : t \in Tails}

NoArgs ==
    [copy |-> FALSE, dry_run |-> TRUE, on_conflict |-> "dup", recurse |-> FALSE,
     batch |-> <<>>, min_bytes |-> DEFAULT_MIN_BYTES]

InitCodec ==
    /\ args = NoArgs
    /\ mode = SFW
    /\ rows = <<>>
    /\ fs = <<>>
    /\ files = <<>>
    /\ row_map = <<>>
    /\ idx = 0
    /\ pc = "name"
    /\ f = NoneVal
    /\ parsed = NoneVal
    /\ ren = "none"
    /\ cats = NoneVal
    /\ dest_dir = NoneVal
    /\ counters = ZeroCounters
    /\ moved_records = <<>>
    /\ after = <<>>
    /\ log = <<>>
    /\ hist = <<>>
    /\ \E n \in CodecNames : cnames = <<n>>

CurrentName == cnames[Len(cnames)]

\* parse_filename on the name at hand
ParseName ==
    /\ pc = "name"
    /\ Len(cnames) <= Rounds
    /\ parsed' = parse_filename(CurrentName)
    /\ pc' = IF parse_filename(CurrentName) = NoneVal THEN "no match" ELSE "parsed"
    /\ UNCHANGED <<args, mode, rows, fs, files, row_map, idx, f, ren, cats, dest_dir,
                   counters, moved_records, after, log, hist, cnames>>

\* build_canonical_name on the record parsed
RenderName ==
    /\ pc = "parsed"
    /\ cnames' = Append(cnames, build_canonical_name(parsed))
    /\ parsed' = NoneVal
    /\ pc' = "name"
    /\ UNCHANGED <<args, mode, rows, fs, files, row_map, idx, f, ren, cats, dest_dir,
                   counters, moved_records, after, log, hist>>

NextCodec == ParseName \/ RenderName

SpecCodec == InitCodec /\ [][NextCodec]_vars

\* C1: every name that parses has a canonical name that parses, and whose
\* canonical name is itself.
C1_IdempotentCanonicalization ==
    /\ (pc = "no match") => Len(cnames) = 1
    /\ Len(cnames) >= 3 => cnames[3] = cnames[2]

\* the normalized name s ends, before the extension and up to one underscore,
\* with _ddddd_ddddd: the index of the second group, 0 when it does not
SecondGroup(s) ==
    LET b == IF Len(s) >= 3 /\ s[Len(s) - 2] = US THEN 1 ELSE 0
        j == Len(s) - 2 - b
    IN  IF /\ j >= 4
           /\ s[Len(s) - 1] = DOT
           /\ s[j] \in NumToks
           /\ s[j - 1] = US
           /\ s[j - 2] \in NumToks
           /\ s[j - 3] = US
        THEN j ELSE 0

\* s with its second group and trailing underscore gone, the extension lowered
FirstGroupOnly(s) ==
    SubSeq(s, 1, SecondGroup(s) - 2) \o <<DOT, Lower(s[Len(s)])>>

\* C2 as claimed: the canonical name of a name that parses and ends with two
\* 5-digit groups keeps the first of the two and drops the second.
C2_SecondSequenceCollapse ==
    (Len(cnames) >= 2 /\ SecondGroup(normalize_filename(cnames[1])) > 0) =>
        cnames[2] = FirstGroupOnly(normalize_filename(cnames[1]))

\* the underscore that ends the third field after the date
FaceEnd(s) == NextUnderscore(s, NextUnderscore(s, NextUnderscore(s, 3) + 1) + 1)

\* C2 as amended: the same, for the names with at least one character between
\* the underscore after the face field and the underscore of the first group.
C2_CollapseAfterMiddle ==
    LET s == normalize_filename(cnames[1])
    IN  (/\ Len(cnames) >= 2
         /\ SecondGroup(s) > 0
         /\ SecondGroup(s) - 3 >= FaceEnd(s) + 2) =>
            cnames[2] = FirstGroupOnly(s)

\* C2 witness: such a name, its two groups different, has been rendered
C2_Witness ==
    LET s == normalize_filename(cnames[1])
    IN  /\ Len(cnames) >= 2
        /\ SecondGroup(s) > 0
        /\ SecondGroup(s) - 3 >= FaceEnd(s) + 2
        /\ s[SecondGroup(s)] # s[SecondGroup(s) - 2]
        /\ s[Len(s) - 2] = US
        /\ cnames[1] # s

(***************************************************************************)
(* Runs on one file: every shape of row, label, batch tag and row order    *)
(***************************************************************************)
MaxRows == 3

Slots == 1..7
\* the columns content, character, factor_face, factor_body, factor_backg,
\* factor_photo, factor_light, each with a value of its own
SlotValue(k) ==
    <<(<<"cont">>), (<<"char">>), (<<"face">>), (<<"body">>), (<<"backg">>), (<<"photo">>),
      (<<"light">>)>>[k]
Specials ==
    {<<"nan">>, <<"None">>, <<SP, "x", SP>>, <<"x", SLASH, "y">>, <<"x", BSLASH, "y">>,
     <<DOT>>, <<DOT, DOT>>}

MkRow(prefix, v) ==
    [filename_prefix |-> prefix, content |-> v[1], character |-> v[2], factor_face |-> v[3],
     factor_body |-> v[4], factor_backg |-> v[5], factor_photo |-> v[6],
     factor_light |-> v[7], factor_pose |-> <<"pose">>]

\* rows with any set of empty cells and at most one special cell
LabelRows ==
    {MkRow(Head4 \o <<"m">>,
           [k \in Slots |-> IF k = sk THEN sv ELSE IF k \in P THEN SlotValue(k) ELSE <<>>]) :
        P \in SUBSET Slots, sk \in 0..7, sv \in Specials}

Batches == {<<>>, <<"t">>, <<"x", SLASH, "y">>, <<SLASH, "x">>, <<DOT, DOT>>}

\* file names whose fields are the categories when no row matches
PlanNames ==
    {<<"20240102", US>> \o c \o <<US>> \o k \o <<US, "c", US>> \o m
            \o <<US, "00017", DOT, "png">> :
        c \in {<<"a">>, <<"nan">>, <<DOT, DOT>>, <<"x", BSLASH, "y">>},
        k \in {<<"b">>, <<DOT>>, <<"None">>},
        m \in {<<"m">>, <<"m", US, "m">>}}

\* the keys a row may carry for the file NameCanon: its stem, prefixes of the
\* stem, a key that is no prefix, an empty cell
StemCanon == PathStem(NameCanon)
Keys ==
    {StemCanon, Head4 \o <<"m">>, <<"20240102">>, <<SP, "20240102", SP>>, <<"b">>, <<>>}
\* row i carries the content i
KeyRows ==
    UNION {{[i \in 1..n |-> MkRow(ks[i], [k \in Slots |-> IF k = 1 THEN <<ToString(i)>>
                                                          ELSE SlotValue(k)])] :
               ks \in [1..n -> Keys]} : n \in 1..MaxRows}

PlanArgs(batch) ==
    [copy |-> FALSE, dry_run |-> FALSE, on_conflict |-> "dup", recurse |-> FALSE,
     batch |-> batch, min_bytes |-> DEFAULT_MIN_BYTES]

OneFile(name) == [p \in {MkPath(ROOT, name)} |-> <<"x">>]

InitPlan ==
    \/ \E r \in LabelRows, b \in Batches :
          InitMain(PlanArgs(b), SFW, <<r>>, OneFile(NameCanon))
    \/ \E n \in PlanNames, b \in Batches, md \in {SFW, NSFW} :
          InitMain(PlanArgs(b), md, <<>>, OneFile(n))
    \/ \E rs \in KeyRows :
          InitMain(PlanArgs(<<>>), SFW, rs, OneFile(NameCanon))

NextPlan ==
    \/ Start
    \/ Canonicalize
    \/ Resolve
    \/ Plan
    \/ Place
    \/ Finish

SpecPlan == InitPlan /\ [][NextPlan]_vars

(***************************************************************************)
(* Claims about the plan                                                   *)
(***************************************************************************)
Planned == pc \in {"place", "crashed"}

\* C6: every present value (the mode, each category, the date, the batch tag)
\* makes exactly one directory level: the planned directory lies below
\* <root>/<mode>, as deep as there are present values.
C6_DestinationContainment ==
    Planned =>
        LET r == ResolveDir(<<>>, dest_dir)
        IN  /\ Len(r) = Len(Parts(mode, cats, parsed.date))
                          + (IF args.batch # <<>> THEN 1 ELSE 0)
            /\ r[1] = mode
            /\ \A i \in 1..Len(r) : r[i] # OUTSIDE

\* the values the categories are taken from: the row's cells when a row
\* matches, else the fields of the file name
SourceValues ==
    IF PrefixLookup(row_map, PathStem(f.name)) # NoneVal
    THEN LET r == rows[CHOOSE i \in 1..Len(rows) :
                          IsPrefix(Strip(rows[i].filename_prefix), PathStem(f.name))]
         IN  <<r.content, r.character, r.factor_face, r.factor_body, r.factor_backg,
               r.factor_photo, r.factor_light>>
    ELSE <<parsed.content, parsed.char, parsed.face, parsed.middle, <<>>, <<>>, <<>> >>

Present(v) == Strip(v) \notin {<<>>, <<"nan">>, <<"None">>}

RECURSIVE PresentSegments(_)
PresentSegments(vs) ==
    IF vs = <<>> THEN <<>>
    ELSE (IF Present(Head(vs)) THEN <<SafeSegment(Head(vs))>> ELSE <<>>)
            \o PresentSegments(Tail(vs))

\* C7: without batch tag, the segments of the planned directory are the
\* present values (not empty, not "nan", not "None") of mode, content,
\* character, face, body, background, photo style, lighting, date, in this
\* order, one segment for each present slot and none for an absent one.
C7_FolderOrder ==
    (Planned /\ args.batch = <<>> /\ Len(rows) <= 1) =>
        dest_dir = <<mode>> \o PresentSegments(SourceValues) \o << <<parsed.date>> >>

\* the rows whose key is the stem or a prefix of it
Matching(stem) ==
    {i \in 1..Len(rows) :
        Strip(rows[i].filename_prefix) # <<>> /\ IsPrefix(Strip(rows[i].filename_prefix), stem)}
Least(S) == CHOOSE i \in S : \A j \in S : i <= j
Greatest(S) == CHOOSE i \in S : \A j \in S : j <= i

\* C10 as claimed: the categories of a file are those of the first row, in row
\* order, whose filename_prefix is the file's stem or a prefix of it.
C10_FirstRowWins ==
    (Planned /\ Matching(PathStem(f.name)) # {}) =>
        cats = build_category_from_excel_row(rows[Least(Matching(PathStem(f.name)))])

\* the key that wins: the stem itself when a row carries it, else the key of
\* the first matching row
WinningKey(stem) ==
    IF \E i \in Matching(stem) : Strip(rows[i].filename_prefix) = stem THEN stem
    ELSE Strip(rows[Least(Matching(stem))].filename_prefix)

\* C10 as amended: the categories are those of the last row that carries the
\* winning key; the winning key is the stem when a row carries the stem, else
\* the key of the first row, in row order, whose key is a prefix of the stem.
C10_ExactKeyThenFirstKey ==
    (Planned /\ Matching(PathStem(f.name)) # {}) =>
        LET stem == PathStem(f.name)
            last == Greatest({i \in Matching(stem) :
                                Strip(rows[i].filename_prefix) = WinningKey(stem)})
        IN  cats = build_category_from_excel_row(rows[last])

\* C10 witness: three rows match; the first has a shorter prefix, a later one
\* the stem itself, and the winning key is carried twice
C10_Witness ==
    /\ pc = "place"
    /\ Len(rows) = 3
    /\ Matching(PathStem(f.name)) = {1, 2, 3}
    /\ Strip(rows[1].filename_prefix) # PathStem(f.name)
    /\ Strip(rows[2].filename_prefix) = PathStem(f.name)
    /\ Strip(rows[3].filename_prefix) = PathStem(f.name)
    /\ cats.content = <<"3">>

=============================================================================
